---- MODULE Spec2Model ----
(***************************************************************************)
(* Session management of the Databricks MCP server (src/main.py).          *)
(*                                                                         *)
(* The process-wide dictionary `sessions` maps a session id to a Session   *)
(* object.  Time is counted in ticks of SecondsPerTick seconds, so that    *)
(* the one hour inactivity timeout of a Session is Expiry ticks.  Every    *)
(* datetime.now() of the code is a reading of the clock `now`, which does  *)
(* not go backwards: it may advance by up to MaxDrift ticks before each    *)
(* reading and by one tick between two calls (Tick).  The environment      *)
(* variables are an input of the call that reads them.                     *)
(*                                                                         *)
(* Spec runs the handlers one after the other, a whole handler in one      *)
(* step.  SpecThreads runs get_session, session_status and logout on the   *)
(* threads of the host runtime, one statement at a time.                   *)
(***************************************************************************)
EXTENDS Integers, Sequences, FiniteSets, TLC

VARIABLES sessions, now, issued, logged_out, ret, th

vars == <<sessions, now, issued, logged_out, ret, th>>

(***************************************************************************)
(* Bounds of the model.                                                    *)
(***************************************************************************)
MaxIds == 2
MaxTime == 4
MaxDrift == 1
NThreads == 2

(***************************************************************************)
(* Values.                                                                 *)
(***************************************************************************)
\* Python's None where a string is expected (session_id, os.getenv).
None == "<None>"
\* Python's None where a Session is expected (result of get_session).
NoSession == [none |-> TRUE]

\* timedelta(hours=1) in ticks, and the length of a tick.
Expiry == 2
SecondsPerTick == 3600 \div Expiry

\* The identifiers uuid.uuid4() can produce.
Ids == {"u" \o ToString(n) : n \in 1..MaxIds}
Hosts == {"h1", "h2"}
Tokens == {"t1"}
Paths == {"p1"}
\* The values os.getenv can give for the three variables: unset, set to the
\* empty string, or set.
Environs == [host : {None, "eh"}, token : {"", "et"}, http_path : {None, "ep"}]
\* The session_id arguments of a call.
SessionIdArgs == Ids \cup {None, ""}
Drift == 0..MaxDrift

\* Python truthiness of an Optional[str].
Truthy(v) == v # None /\ v # ""
\* all([...]) of the code.
all(vs) == \A v \in vs : Truthy(v)

(***************************************************************************)
(* class Session                                                           *)
(***************************************************************************)
\* Session.__init__: uuid is the value of uuid.uuid4(), tc and tl are the
\* two readings of the clock.
\* Session.__init__ that takes last_used before created_at.
Session_swapped(uuid, host, token, http_path, tc, tl) ==
    [id |-> uuid, host |-> host, token |-> token, http_path |-> http_path,
     created_at |-> tl, last_used |-> tc, expiry |-> Expiry]

Session(uuid, host, token, http_path, tc, tl) ==
    [id |-> uuid, host |-> host, token |-> token, http_path |-> http_path,
     created_at |-> tc, last_used |-> tl, expiry |-> Expiry]

\* update_last_used that restarts the whole Session.
update_last_used_restart(s, t) == [s EXCEPT !.last_used = t, !.created_at = t]

update_last_used(s, t) == [s EXCEPT !.last_used = t]

\* is_expired that also expires a session idle for exactly the expiry.
is_expired_ge(s, t) == t - s.last_used >= s.expiry

\* is_expired that measures the age of the Session, not its idle time.
is_expired_absolute(s, t) == t - s.created_at > s.expiry

is_expired(s, t) == t - s.last_used > s.expiry

\* del store[k], emptying the dictionary instead.
Del_clear(store, k) == <<>>

\* del store[k]
Del(store, k) == [j \in DOMAIN store \ {k} |-> store[j]]

\* get_session that touches every stored session when it finds one live.
get_session_touch_all(store, session_id, t0, t1, t2) ==
    IF session_id \notin DOMAIN store
    THEN [sessions |-> store, session |-> NoSession, now |-> t0]
    ELSE IF is_expired(store[session_id], t1)
         THEN [sessions |-> Del(store, session_id), session |-> NoSession,
               now |-> t1]
         ELSE [sessions |-> [k \in DOMAIN store |->
                                 update_last_used(store[k], t2)],
               session |-> update_last_used(store[session_id], t2),
               now |-> t2]

\* get_session that reports an expired session as not found and leaves it
\* in the dictionary.
get_session_keep(store, session_id, t0, t1, t2) ==
    IF session_id \notin DOMAIN store
    THEN [sessions |-> store, session |-> NoSession, now |-> t0]
    ELSE IF is_expired(store[session_id], t1)
         THEN [sessions |-> store, session |-> NoSession, now |-> t1]
         ELSE [sessions |-> [store EXCEPT ![session_id] =
                                 update_last_used(store[session_id], t2)],
               session |-> update_last_used(store[session_id], t2),
               now |-> t2]

(***************************************************************************)
(* get_session: t1 is the clock reading of is_expired, t2 the reading of   *)
(* update_last_used, t0 the time of the call.  The result carries the new  *)
(* dictionary, the returned Session (or NoSession) and the time of the     *)
(* last clock reading.                                                     *)
(***************************************************************************)
get_session(store, session_id, t0, t1, t2) ==
    IF session_id \notin DOMAIN store
    THEN [sessions |-> store, session |-> NoSession, now |-> t0]
    ELSE IF is_expired(store[session_id], t1)
         THEN [sessions |-> Del(store, session_id), session |-> NoSession,
               now |-> t1]
         ELSE [sessions |-> [store EXCEPT ![session_id] =
                                 update_last_used(store[session_id], t2)],
               session |-> update_last_used(store[session_id], t2),
               now |-> t2]

\* get_databricks_connection that checks the default host and token only.
get_databricks_connection_two(store, environ, session_id, t0, t1, t2) ==
    IF Truthy(session_id)
    THEN LET r == get_session(store, session_id, t0, t1, t2)
         IN  IF r.session = NoSession
             THEN [sessions |-> r.sessions, now |-> r.now,
                   out |-> "ValueError: Invalid or expired session ID"]
             ELSE [sessions |-> r.sessions, now |-> r.now,
                   out |-> "connect", host |-> r.session.host,
                   token |-> r.session.token,
                   http_path |-> r.session.http_path]
    ELSE IF ~all({environ.host, environ.token})
         THEN [sessions |-> store, now |-> t0,
               out |-> "ValueError: Missing required Databricks connection details"]
         ELSE [sessions |-> store, now |-> t0,
               out |-> "connect", host |-> environ.host,
               token |-> environ.token, http_path |-> environ.http_path]

(***************************************************************************)
(* get_databricks_connection, up to the call of connect: the result names  *)
(* the exception raised, or the arguments handed to connect.               *)
(***************************************************************************)
get_databricks_connection(store, environ, session_id, t0, t1, t2) ==
    IF Truthy(session_id)
    THEN LET r == get_session(store, session_id, t0, t1, t2)
         IN  IF r.session = NoSession
             THEN [sessions |-> r.sessions, now |-> r.now,
                   out |-> "ValueError: Invalid or expired session ID"]
             ELSE IF ~all({r.session.host, r.session.token,
                           r.session.http_path})
             THEN [sessions |-> r.sessions, now |-> r.now,
                   out |-> "ValueError: Missing required Databricks connection details"]
             ELSE [sessions |-> r.sessions, now |-> r.now,
                   out |-> "connect", host |-> r.session.host,
                   token |-> r.session.token,
                   http_path |-> r.session.http_path]
    ELSE IF ~all({environ.host, environ.token, environ.http_path})
         THEN [sessions |-> store, now |-> t0,
               out |-> "ValueError: Missing required Databricks connection details"]
         ELSE [sessions |-> store, now |-> t0,
               out |-> "connect", host |-> environ.host,
               token |-> environ.token, http_path |-> environ.http_path]

(***************************************************************************)
(* databricks_api_request, up to the HTTP request: the result names the    *)
(* exception raised, or the host of the url and the bearer token of the    *)
(* headers.                                                                *)
(***************************************************************************)
databricks_api_request(store, environ, session_id, t0, t1, t2) ==
    IF Truthy(session_id)
    THEN LET r == get_session(store, session_id, t0, t1, t2)
         IN  IF r.session = NoSession
             THEN [sessions |-> r.sessions, now |-> r.now,
                   out |-> "ValueError: Invalid or expired session ID"]
             ELSE IF ~all({r.session.host, r.session.token})
             THEN [sessions |-> r.sessions, now |-> r.now,
                   out |-> "ValueError: Missing required Databricks API credentials"]
             ELSE [sessions |-> r.sessions, now |-> r.now,
                   out |-> "request", host |-> r.session.host,
                   token |-> r.session.token]
    ELSE IF ~all({environ.host, environ.token})
         THEN [sessions |-> store, now |-> t0,
               out |-> "ValueError: Missing required Databricks API credentials"]
         ELSE [sessions |-> store, now |-> t0,
               out |-> "request", host |-> environ.host,
               token |-> environ.token]

(***************************************************************************)
(* login.  probe names the call of the connectivity probe that raises      *)
(* ("connect", "cursor", "execute", "close") or is "ok"; uuid, tc and tl   *)
(* are the values Session.__init__ draws.                                  *)
(***************************************************************************)
\* The outcomes the SQL collaborator can give for the supplied credentials:
\* no connection is established to an empty host, path or token.
ProbeOutcomes(host, token, http_path) ==
    IF all({host, token, http_path})
    THEN {"ok", "connect", "cursor", "execute", "close"}
    ELSE {"connect", "cursor", "execute"}

\* login that registers the Session before the probe has answered.
login_register_first(store, host, token, http_path, probe, uuid, t0, tc, tl) ==
    [sessions |-> (uuid :> Session(uuid, host, token, http_path, tc, tl))
                     @@ store,
     now |-> IF probe = "ok" THEN tl ELSE t0,
     out |-> IF probe = "ok" THEN "Successfully authenticated"
             ELSE "Authentication failed",
     id |-> IF probe = "ok" THEN uuid ELSE None]

\* login that sweeps the expired sessions out of the dictionary.
login_sweep(store, host, token, http_path, probe, uuid, t0, tc, tl) ==
    LET kept == [k \in {j \in DOMAIN store : ~is_expired(store[j], t0)}
                    |-> store[k]]
    IN  IF probe = "ok"
        THEN [sessions |-> (uuid :> Session(uuid, host, token, http_path,
                                            tc, tl)) @@ kept,
              now |-> tl, out |-> "Successfully authenticated", id |-> uuid]
        ELSE [sessions |-> kept, now |-> t0, out |-> "Authentication failed",
              id |-> None]

\* login that stores the Session under its host.
login_by_host(store, host, token, http_path, probe, uuid, t0, tc, tl) ==
    IF probe = "ok"
    THEN [sessions |-> (host :> Session(uuid, host, token, http_path, tc, tl))
                          @@ store,
          now |-> tl, out |-> "Successfully authenticated", id |-> uuid]
    ELSE [sessions |-> store, now |-> t0, out |-> "Authentication failed",
          id |-> None]

login(store, host, token, http_path, probe, uuid, t0, tc, tl) ==
    IF probe = "ok"
    THEN [sessions |-> (uuid :> Session(uuid, host, token, http_path, tc, tl))
                          @@ store,
          now |-> tl, out |-> "Successfully authenticated", id |-> uuid]
    ELSE [sessions |-> store, now |-> t0, out |-> "Authentication failed",
          id |-> None]

(***************************************************************************)
(* logout                                                                  *)
(***************************************************************************)
\* logout that reports success whatever the id.
logout_always(store, session_id) ==
    [sessions |-> Del(store, session_id), out |-> "Successfully logged out"]

logout(store, session_id) ==
    IF session_id \in DOMAIN store
    THEN [sessions |-> Del(store, session_id),
          out |-> "Successfully logged out"]
    ELSE [sessions |-> store, out |-> "Session not found"]

(***************************************************************************)
(* session_status: t3 is the clock reading of expires_in.                  *)
(***************************************************************************)
\* int(x / y) of Python for y > 0: truncation towards zero.
int_div(x, y) == IF x >= 0 THEN x \div y ELSE -((-x) \div y)

\* session_status that counts the remaining time from created_at.
session_status_created(store, session_id, t0, t1, t2, t3) ==
    LET r == get_session(store, session_id, t0, t1, t2)
    IN  IF r.session = NoSession
        THEN [sessions |-> r.sessions, now |-> r.now,
              out |-> "Session not found or expired"]
        ELSE LET expires_in == r.session.expiry - (t3 - r.session.created_at)
             IN  [sessions |-> r.sessions, now |-> t3,
                  out |-> "Session Status", id |-> r.session.id,
                  host |-> r.session.host,
                  created |-> r.session.created_at,
                  expires_in |-> expires_in,
                  minutes |-> int_div(expires_in * SecondsPerTick, 60)]

\* session_status that counts the remaining time from the last_used it found.
session_status_idle(store, session_id, t0, t1, t2, t3) ==
    LET r == get_session(store, session_id, t0, t1, t2)
    IN  IF r.session = NoSession
        THEN [sessions |-> r.sessions, now |-> r.now,
              out |-> "Session not found or expired"]
        ELSE LET expires_in == r.session.expiry
                                   - (t3 - store[session_id].last_used)
             IN  [sessions |-> r.sessions, now |-> t3,
                  out |-> "Session Status", id |-> r.session.id,
                  host |-> r.session.host,
                  created |-> r.session.created_at,
                  expires_in |-> expires_in,
                  minutes |-> int_div(expires_in * SecondsPerTick, 60)]

session_status(store, session_id, t0, t1, t2, t3) ==
    LET r == get_session(store, session_id, t0, t1, t2)
    IN  IF r.session = NoSession
        THEN [sessions |-> r.sessions, now |-> r.now,
              out |-> "Session not found or expired"]
        ELSE LET expires_in == r.session.expiry - (t3 - r.session.last_used)
             IN  [sessions |-> r.sessions, now |-> t3,
                  out |-> "Session Status", id |-> r.session.id,
                  host |-> r.session.host,
                  created |-> r.session.created_at,
                  expires_in |-> expires_in,
                  minutes |-> int_div(expires_in * SecondsPerTick, 60)]

(***************************************************************************)
(* State after the module is loaded.  issued records, for every id that    *)
(* uuid4 has produced, the credentials of the login that produced it;      *)
(* logged_out the ids that a logout has deleted; ret the last call, what   *)
(* it returned and whether it deleted an entry; th the calls in progress   *)
(* on the threads of the host runtime.                                     *)
(***************************************************************************)
Threads == 1..NThreads
Idle == [pc |-> "idle"]

Init ==
    /\ sessions = <<>>
    /\ now = 0
    /\ issued = <<>>
    /\ logged_out = {}
    /\ ret = [op |-> "start"]
    /\ th = [t \in Threads |-> Idle]

\* Time passes between two calls.
Tick ==
    /\ now < MaxTime
    /\ now' = now + 1
    /\ ret' = [op |-> "tick"]
    /\ UNCHANGED <<sessions, issued, logged_out, th>>

\* The advance of the clock before a reading: none when the reading is not
\* made.
Reads(made) == IF made THEN Drift ELSE {0}
\* The session of store[sid] is looked up and found live at time t.
Live(store, sid, t) == sid \in DOMAIN store /\ ~is_expired(store[sid], t)
\* What os.getenv gives: the environment is read only without a session id.
Getenv(sid) == IF Truthy(sid) THEN {[host |-> None, token |-> None,
                                     http_path |-> None]}
               ELSE Environs
\* The fields of a result that are returned to the caller.
Returned(r) == [f \in DOMAIN r \ {"sessions", "now"} |-> r[f]]

\* A call of get_session(session_id).
GetSession ==
    \E sid \in SessionIdArgs :
    \E d1 \in Reads(sid \in DOMAIN sessions) :
    \E d2 \in Reads(Live(sessions, sid, now + d1)) :
        LET r == get_session(sessions, sid, now, now + d1, now + d1 + d2)
        IN  /\ r.now <= MaxTime
            /\ sessions' = r.sessions
            /\ now' = r.now
            /\ ret' = [op |-> "get_session", arg |-> sid,
                       evicted |-> DOMAIN sessions # DOMAIN r.sessions,
                       idle |-> IF sid \in DOMAIN sessions
                                THEN now + d1 - sessions[sid].last_used
                                ELSE None,
                       session |-> r.session]
            /\ UNCHANGED <<issued, logged_out, th>>

GetDatabricksConnection ==
    \E sid \in SessionIdArgs :
    \E environ \in Getenv(sid) :
    \E d1 \in Reads(sid \in DOMAIN sessions) :
    \E d2 \in Reads(Live(sessions, sid, now + d1)) :
        LET r == get_databricks_connection(sessions, environ, sid, now,
                                           now + d1, now + d1 + d2)
        IN  /\ r.now <= MaxTime
            /\ sessions' = r.sessions
            /\ now' = r.now
            /\ ret' = [op |-> "get_databricks_connection", arg |-> sid,
                       evicted |-> DOMAIN sessions # DOMAIN r.sessions,
                       environ |-> environ, res |-> Returned(r)]
            /\ UNCHANGED <<issued, logged_out, th>>

DatabricksApiRequest ==
    \E sid \in SessionIdArgs :
    \E environ \in Getenv(sid) :
    \E d1 \in Reads(sid \in DOMAIN sessions) :
    \E d2 \in Reads(Live(sessions, sid, now + d1)) :
        LET r == databricks_api_request(sessions, environ, sid, now,
                                        now + d1, now + d1 + d2)
        IN  /\ r.now <= MaxTime
            /\ sessions' = r.sessions
            /\ now' = r.now
            /\ ret' = [op |-> "databricks_api_request", arg |-> sid,
                       evicted |-> DOMAIN sessions # DOMAIN r.sessions,
                       environ |-> environ, res |-> Returned(r)]
            /\ UNCHANGED <<issued, logged_out, th>>

\* uuid4 that can draw a value again.
uuid4_again(used) == Ids

\* uuid.uuid4(): a random 122-bit value, one that was not drawn before.  The
\* ids are opaque, so the model draws them in the order u1, u2, ...
uuid4(used) == {"u" \o ToString(Cardinality(used) + 1)} \cap Ids

Login ==
    \E host \in Hosts \cup {""}, token \in Tokens \cup {""},
       http_path \in Paths \cup {""} :
    \E probe \in ProbeOutcomes(host, token, http_path) :
    \E uuid \in (IF probe = "ok" THEN uuid4(DOMAIN issued) ELSE {None}) :
    \E d1 \in Reads(probe = "ok"), d2 \in Reads(probe = "ok") :
        LET r == login(sessions, host, token, http_path, probe, uuid, now,
                       now + d1, now + d1 + d2)
        IN  /\ r.now <= MaxTime
            /\ sessions' = r.sessions
            /\ now' = r.now
            /\ issued' = IF r.id = None THEN issued
                         ELSE (r.id :> [host |-> host, token |-> token,
                                        http_path |-> http_path]) @@ issued
            /\ ret' = [op |-> "login", probe |-> probe, out |-> r.out,
                       id |-> r.id]
            /\ UNCHANGED <<logged_out, th>>

Logout ==
    \E sid \in SessionIdArgs :
        LET r == logout(sessions, sid)
        IN  /\ sessions' = r.sessions
            /\ ret' = [op |-> "logout", arg |-> sid, out |-> r.out]
            /\ logged_out' = logged_out \cup (DOMAIN sessions \ DOMAIN r.sessions)
            /\ UNCHANGED <<now, issued, th>>

SessionStatus ==
    \E sid \in SessionIdArgs :
    \E d1 \in Reads(sid \in DOMAIN sessions) :
    \E d2 \in Reads(Live(sessions, sid, now + d1)) :
    \E d3 \in Reads(Live(sessions, sid, now + d1)) :
        LET r == session_status(sessions, sid, now, now + d1, now + d1 + d2,
                                now + d1 + d2 + d3)
        IN  /\ r.now <= MaxTime
            /\ sessions' = r.sessions
            /\ now' = r.now
            /\ ret' = [op |-> "session_status", arg |-> sid,
                       evicted |-> DOMAIN sessions # DOMAIN r.sessions,
                       res |-> Returned(r)]
            /\ UNCHANGED <<issued, logged_out, th>>

(***************************************************************************)
(* The same handlers run on the threads of the host runtime, one statement *)
(* that reads or writes `sessions`, a Session or the clock at a time.  The *)
(* local variable `session` of a thread refers to a Session object: an     *)
(* object stays the same while it is in the dictionary, and lives on in    *)
(* the locals that refer to it once it is deleted.                         *)
(***************************************************************************)
\* The ids a call on a thread can carry: the id of an earlier login, and the
\* id of the calls on the other threads when there are any (the calls that
\* race are calls on the same id).
CallIds == IF \E u \in Threads : th[u].pc # "idle"
           THEN {th[u].sid : u \in {v \in Threads : th[v].pc # "idle"}}
           ELSE DOMAIN issued

\* The Session that a handler has in hand: its id and credentials.
Handle(s) == [id |-> s.id, host |-> s.host, token |-> s.token,
              http_path |-> s.http_path]

\* get_session or session_status is called on thread t (a thread serves one
\* call): session = sessions.get(session_id); if not session: return None
GsGet(t) ==
    /\ th[t].pc = "idle"
    /\ \E op \in {"get_session", "session_status"}, sid \in CallIds :
         th' = [th EXCEPT ![t] =
                   IF sid \in DOMAIN sessions
                   THEN [pc |-> "gs_expired", op |-> op, sid |-> sid,
                         session |-> sessions[sid]]
                   ELSE [pc |-> "done", op |-> op, sid |-> sid,
                         result |-> IF op = "get_session" THEN NoSession
                                    ELSE "Session not found or expired"]]
    /\ UNCHANGED <<sessions, now, issued, logged_out, ret>>

\* if session.is_expired():
GsExpired(t) ==
    /\ th[t].pc = "gs_expired"
    /\ th' = [th EXCEPT ![t].pc =
                 IF is_expired(th[t].session, now) THEN "gs_del"
                 ELSE "gs_touch"]
    /\ UNCHANGED <<sessions, now, issued, logged_out, ret>>

\* del sessions[session_id]; return None
GsDel(t) ==
    /\ th[t].pc = "gs_del"
    /\ IF th[t].sid \in DOMAIN sessions
       THEN /\ sessions' = Del(sessions, th[t].sid)
            /\ th' = [th EXCEPT ![t] =
                         [pc |-> "done", op |-> @.op, sid |-> @.sid,
                          result |-> IF @.op = "get_session" THEN NoSession
                                     ELSE "Session not found or expired"]]
       ELSE /\ sessions' = sessions
            /\ th' = [th EXCEPT ![t] =
                         [pc |-> "done", op |-> @.op, sid |-> @.sid,
                          result |-> "KeyError"]]
    /\ UNCHANGED <<now, issued, logged_out, ret>>

\* session.update_last_used()
GsTouch(t) ==
    /\ th[t].pc = "gs_touch"
    /\ LET touch(s) == update_last_used(s, now)
           k == th[t].session.id
       IN  /\ sessions' = [j \in DOMAIN sessions |->
                              IF j = k THEN touch(sessions[j]) ELSE sessions[j]]
           /\ th' = [u \in Threads |->
                        IF u = t
                        THEN [th[u] EXCEPT !.pc = "gs_ret",
                                           !.session = touch(@)]
                        ELSE IF "session" \in DOMAIN th[u]
                                /\ th[u].session # NoSession
                                /\ th[u].session.id = k
                             THEN [th[u] EXCEPT !.session = touch(@)]
                             ELSE th[u]]
    /\ UNCHANGED <<now, issued, logged_out, ret>>

\* return session, to the caller of get_session or into session_status
GsRet(t) ==
    /\ th[t].pc = "gs_ret"
    /\ th' = [th EXCEPT ![t] =
                 IF th[t].op = "get_session"
                 THEN [pc |-> "done", op |-> @.op, sid |-> @.sid,
                       result |-> Handle(@.session)]
                 ELSE [@ EXCEPT !.pc = "st_expires"]]
    /\ UNCHANGED <<sessions, now, issued, logged_out, ret>>

\* expires_in = session.expiry - (datetime.now() - session.last_used), and
\* the report
StExpires(t) ==
    /\ th[t].pc = "st_expires"
    /\ th' = [th EXCEPT ![t] =
                 [pc |-> "done", op |-> @.op, sid |-> @.sid,
                  result |-> "Session Status", host |-> @.session.host,
                  expires_in |-> @.session.expiry
                                 - (now - @.session.last_used)]]
    /\ UNCHANGED <<sessions, now, issued, logged_out, ret>>

\* logout is called on thread t: if session_id in sessions:
LoTest(t) ==
    /\ th[t].pc = "idle"
    /\ \E sid \in CallIds :
         th' = [th EXCEPT ![t] =
                   IF sid \in DOMAIN sessions
                   THEN [pc |-> "lo_del", op |-> "logout", sid |-> sid]
                   ELSE [pc |-> "done", op |-> "logout", sid |-> sid,
                         result |-> "Session not found"]]
    /\ UNCHANGED <<sessions, now, issued, logged_out, ret>>

\* del sessions[session_id]; return "Successfully logged out..."
LoDel(t) ==
    /\ th[t].pc = "lo_del"
    /\ IF th[t].sid \in DOMAIN sessions
       THEN /\ sessions' = Del(sessions, th[t].sid)
            /\ logged_out' = logged_out \cup {th[t].sid}
            /\ th' = [th EXCEPT ![t] =
                         [pc |-> "done", op |-> @.op, sid |-> @.sid,
                          result |-> "Successfully logged out"]]
       ELSE /\ UNCHANGED <<sessions, logged_out>>
            /\ th' = [th EXCEPT ![t] =
                         [pc |-> "done", op |-> @.op, sid |-> @.sid,
                          result |-> "KeyError"]]
    /\ UNCHANGED <<now, issued, ret>>

Next ==
    \/ Tick
    \/ GetSession
    \/ GetDatabricksConnection
    \/ DatabricksApiRequest
    \/ Login
    \/ Logout
    \/ SessionStatus

Spec == Init /\ [][Next]_vars

\* The logins precede the calls on the threads; a failed login leaves the
\* dictionary alone and is left out.
LoginFirst ==
    /\ \A t \in Threads : th[t].pc = "idle"
    /\ Login
    /\ ret'.probe = "ok"

NextThreads ==
    \/ Tick
    \/ LoginFirst
    \/ \E t \in Threads :
         \/ GsGet(t)
         \/ GsExpired(t)
         \/ GsDel(t)
         \/ GsTouch(t)
         \/ GsRet(t)
         \/ StExpires(t)
         \/ LoTest(t)
         \/ LoDel(t)

SpecThreads == Init /\ [][NextThreads]_vars

(***************************************************************************)
(* Vocabulary of the properties.                                           *)
(***************************************************************************)
\* The calls that look a session up with get_session.
ResolverOps == {"get_databricks_connection", "databricks_api_request"}
LookupOps == {"get_session", "session_status"} \cup ResolverOps
\* r is a call that looked the id up.
Looked(r, id) == r.op \in LookupOps /\ r.arg = id
\* r is a lookup that reported not-found / invalid session.
NotFound(r) ==
    \/ r.op = "get_session" /\ r.session = NoSession
    \/ r.op = "session_status" /\ r.res.out = "Session not found or expired"
    \/ r.op \in ResolverOps
       /\ r.res.out = "ValueError: Invalid or expired session ID"
\* now - last_used > expiry
Expired(s, t) == t - s.last_used > s.expiry
\* The fields of a Session other than last_used.
Fixed(s) == [f \in DOMAIN s \ {"last_used"} |-> s[f]]
\* The ids that were issued and are no longer in the dictionary.
Removed == DOMAIN issued \ DOMAIN sessions
\* The ids that lazy eviction removed.
Evicted == Removed \ logged_out

(***************************************************************************)
(* C1: a lookup of a stored session that is expired when the call is made  *)
(* removes the entry and reports not-found, and every later lookup of an   *)
(* evicted id reports not-found and leaves it out of the dictionary.       *)
(***************************************************************************)
C1_ExpiredLookupEvicts ==
    [][/\ \A id \in DOMAIN sessions :
            Looked(ret', id) /\ Expired(sessions[id], now)
                => id \notin DOMAIN sessions' /\ NotFound(ret')
       /\ \A id \in Evicted :
            /\ id \notin DOMAIN sessions'
            /\ Looked(ret', id) => NotFound(ret')]_vars

\* A get_session of an id has evicted it, and another session is left.
C1_Witness ==
    /\ ret.op = "get_session" /\ ret.evicted
    /\ ret.arg \in Evicted /\ ret.session = NoSession
    /\ sessions # <<>>

(***************************************************************************)
(* C2: a login whose probe fails (connect, cursor or the query raises)     *)
(* returns an authentication failure and leaves the dictionary as it was.  *)
(***************************************************************************)
C2_FailedLoginKeepsStore ==
    [][ret'.op = "login" /\ ret'.probe # "ok"
          => /\ ret'.out = "Authentication failed"
             /\ ret'.id = None
             /\ sessions' = sessions
             /\ issued' = issued]_vars

\* The query of the probe has raised while a session was stored.
C2_Witness ==
    /\ ret.op = "login" /\ ret.probe = "execute"
    /\ ret.out = "Authentication failed"
    /\ sessions # <<>>

(***************************************************************************)
(* C3: a get_session that returns after a logout of the same id has        *)
(* deleted the entry returns not-found, never the deleted Session.         *)
(***************************************************************************)
C3_NoGhostRead ==
    [][\A t \in Threads :
          /\ th[t].pc = "gs_ret" /\ th[t].op = "get_session"
          /\ th'[t].pc = "done"
          /\ th[t].sid \in logged_out
          => th'[t].result = NoSession]_vars

(***************************************************************************)
(* C4: an id that was removed from the dictionary, by logout or by lazy    *)
(* eviction, is never in it again and every lookup of it reports           *)
(* not-found; a logout that reports a deletion has deleted the entry, and  *)
(* a successful session_status shows the host of the login.                *)
(***************************************************************************)
C4_RemovedStaysRemoved ==
    [][/\ \A id \in Removed :
            /\ id \notin DOMAIN sessions'
            /\ Looked(ret', id) => NotFound(ret')
       /\ ret'.op = "logout" /\ ret'.out = "Successfully logged out"
            => ret'.arg \in DOMAIN sessions /\ ret'.arg \notin DOMAIN sessions'
       /\ ret'.op = "session_status" /\ ret'.res.out = "Session Status"
            => /\ ret'.arg \in DOMAIN sessions'
               /\ ret'.res.host = issued[ret'.arg].host]_vars

\* session_status of an id that was logged out reports not-found after the
\* second id was issued.
C4_Witness ==
    /\ ret.op = "session_status" /\ ret.arg \in logged_out
    /\ ret.res.out = "Session not found or expired"
    /\ Cardinality(DOMAIN issued) = 2

(***************************************************************************)
(* C5: a resolver called with a session id other than None returns the     *)
(* credentials of the login that issued the id when the session is live,   *)
(* and fails with the invalid-session error otherwise.                     *)
(***************************************************************************)
C5_SessionIdNeverFallsBack ==
    ret.op \in ResolverOps /\ ret.arg # None
        => IF ret.arg \in DOMAIN sessions
           THEN /\ ret.res.out \in {"connect", "request"}
                /\ ret.res.host = issued[ret.arg].host
                /\ ret.res.token = issued[ret.arg].token
                /\ ret.op = "get_databricks_connection"
                      => ret.res.http_path = issued[ret.arg].http_path
           ELSE ret.res.out = "ValueError: Invalid or expired session ID"

(***************************************************************************)
(* C6: get_databricks_connection without a session id hands the three      *)
(* default values to connect when all three are set (and not empty),       *)
(* fails with the missing-credentials error when one is not, and leaves    *)
(* the dictionary as it was.                                               *)
(***************************************************************************)
C6_DefaultCredentials ==
    [][ret'.op = "get_databricks_connection" /\ ret'.arg = None
          => /\ sessions' = sessions
             /\ IF /\ Truthy(ret'.environ.host)
                    /\ Truthy(ret'.environ.token)
                    /\ Truthy(ret'.environ.http_path)
                THEN ret'.res = [out |-> "connect",
                                 host |-> ret'.environ.host,
                                 token |-> ret'.environ.token,
                                 http_path |-> ret'.environ.http_path]
                ELSE ret'.res = [out |->
                    "ValueError: Missing required Databricks connection details"]
         ]_vars

\* Only the default http_path is missing, a session is stored, and the call
\* has failed.
C6_Witness ==
    /\ ret.op = "get_databricks_connection" /\ ret.arg = None
    /\ Truthy(ret.environ.host) /\ Truthy(ret.environ.token)
    /\ ~Truthy(ret.environ.http_path)
    /\ ret.res.out = "ValueError: Missing required Databricks connection details"
    /\ sessions # <<>>

(***************************************************************************)
(* C7 as claimed: every lookup of a live session makes last_used greater   *)
(* than it was and leaves the other fields of the Session as they were.    *)
(***************************************************************************)
C7_StrictlyAdvances ==
    [][\A id \in DOMAIN sessions :
          Looked(ret', id) /\ id \in DOMAIN sessions'
              => /\ sessions'[id].last_used > sessions[id].last_used
                 /\ Fixed(sessions'[id]) = Fixed(sessions[id])]_vars

(***************************************************************************)
(* C7 as amended: every lookup of a live session sets last_used to the     *)
(* clock reading of the call, which is not less than the previous value    *)
(* (and equal to it when the clock has not advanced since), and leaves the *)
(* other fields of the Session as they were.                               *)
(***************************************************************************)
C7_TouchSetsLastUsed ==
    [][\A id \in DOMAIN sessions :
          Looked(ret', id) /\ id \in DOMAIN sessions'
              => /\ sessions'[id].last_used >= sessions[id].last_used
                 /\ sessions'[id].last_used >= now
                 /\ sessions'[id].last_used <= now'
                 /\ ret'.op = "get_session"
                      => /\ sessions'[id].last_used = now'
                         /\ ret'.session = sessions'[id]
                 /\ Fixed(sessions'[id]) = Fixed(sessions[id])]_vars

\* A get_session has returned a Session that it touched after its creation
\* and that has been touched before.
C7_Witness ==
    /\ ret.op = "get_session" /\ ret.session # NoSession
    /\ ret.session.last_used > ret.session.created_at + 1
    /\ ret.session.last_used = now

(***************************************************************************)
(* C8: logout reports a deletion iff the id was a key of the dictionary,   *)
(* returns one of its two messages, leaves the id absent and the other     *)
(* entries as they were; on an absent id it changes nothing.               *)
(***************************************************************************)
C8_Logout ==
    [][ret'.op = "logout"
          => /\ ret'.out \in {"Successfully logged out", "Session not found"}
             /\ ret'.out = "Successfully logged out"
                   <=> ret'.arg \in DOMAIN sessions
             /\ ret'.arg \notin DOMAIN sessions'
             /\ sessions' = [k \in DOMAIN sessions \ {ret'.arg} |-> sessions[k]]
             /\ ret'.arg \notin DOMAIN sessions => sessions' = sessions]_vars

\* A second logout of an id reports that nothing was deleted.
C8_Witness ==
    /\ ret.op = "logout" /\ ret.out = "Session not found"
    /\ ret.arg \in logged_out
    /\ sessions # <<>>

(***************************************************************************)
(* C9 as claimed: a resolver called with a session id leaves the set of    *)
(* stored ids as it was and changes no field of a Session but the          *)
(* last_used of the one it looked up.                                      *)
(***************************************************************************)
C9_ResolverOnlyTouches ==
    [][ret'.op \in ResolverOps /\ Truthy(ret'.arg)
          => /\ DOMAIN sessions' = DOMAIN sessions
             /\ \A id \in DOMAIN sessions \cap DOMAIN sessions' :
                   /\ Fixed(sessions'[id]) = Fixed(sessions[id])
                   /\ id # ret'.arg => sessions'[id] = sessions[id]]_vars

(***************************************************************************)
(* C9 as amended: a resolver called with a session id changes nothing in   *)
(* the dictionary but the last_used of the session it looked up or, when   *)
(* that session is expired, the removal of its entry.                      *)
(***************************************************************************)
C9_ResolverTouchesOrEvicts ==
    [][ret'.op \in ResolverOps /\ Truthy(ret'.arg)
          => /\ DOMAIN sessions' \subseteq DOMAIN sessions
             /\ DOMAIN sessions \ DOMAIN sessions' \subseteq {ret'.arg}
             /\ \A id \in DOMAIN sessions \ DOMAIN sessions' :
                   sessions[id].last_used + sessions[id].expiry < now'
             /\ \A id \in DOMAIN sessions' :
                   /\ Fixed(sessions'[id]) = Fixed(sessions[id])
                   /\ id # ret'.arg => sessions'[id] = sessions[id]]_vars

\* A resolver has evicted the session it was called with, and another
\* session is left.
C9_Witness ==
    /\ ret.op \in ResolverOps /\ ret.evicted
    /\ ret.arg \in Evicted
    /\ sessions # <<>>

(***************************************************************************)
(* C10 as claimed: an expired entry leaves the dictionary only in a lookup *)
(* of its id.                                                              *)
(***************************************************************************)
C10_OnlyLookupRemovesExpired ==
    [][\A id \in DOMAIN sessions :
          Expired(sessions[id], now) /\ id \notin DOMAIN sessions'
              => Looked(ret', id)]_vars

(***************************************************************************)
(* C10 as amended: an expired entry leaves the dictionary only in a lookup *)
(* of its id or in a logout of its id; no other call and no passing of     *)
(* time removes it.                                                        *)
(***************************************************************************)
C10_OnlyLookupOrLogoutRemovesExpired ==
    [][\A id \in DOMAIN sessions :
          Expired(sessions[id], now) /\ id \notin DOMAIN sessions'
              => \/ Looked(ret', id)
                 \/ ret'.op = "logout" /\ ret'.arg = id]_vars

\* A login has succeeded while an expired session was in the dictionary, and
\* the expired session is still there.
C10_Witness ==
    /\ ret.op = "login" /\ ret.out = "Successfully authenticated"
    /\ \E id \in DOMAIN sessions : Expired(sessions[id], now)

(***************************************************************************)
(* C11: get_session of a stored id returns the Session iff, at the clock   *)
(* reading of the lookup, now - last_used <= expiry: a session idle for    *)
(* exactly the expiry is returned and touched, one idle for longer is      *)
(* removed and reported not-found.                                         *)
(***************************************************************************)
C11_LiveIffIdleAtMostExpiry ==
    [][\A id \in DOMAIN sessions :
          ret'.op = "get_session" /\ ret'.arg = id
              => /\ ret'.idle + sessions[id].last_used >= now
                 /\ ret'.idle + sessions[id].last_used <= now'
                 /\ ret'.session # NoSession
                       <=> ret'.idle <= sessions[id].expiry
                 /\ ret'.session # NoSession
                       => /\ id \in DOMAIN sessions'
                          /\ ret'.session = sessions'[id]
                          /\ sessions'[id].last_used = now'
                 /\ ret'.session = NoSession
                       => id \notin DOMAIN sessions']_vars

\* get_session has returned, and touched, a session that was idle for exactly
\* the expiry when is_expired read the clock.
C11_Witness ==
    /\ ret.op = "get_session" /\ ret.session # NoSession
    /\ ret.arg \in DOMAIN sessions
    /\ ret.idle = Expiry
    /\ sessions[ret.arg].last_used = now

(***************************************************************************)
(* C12: every stored session has last_used >= created_at (the dictionary   *)
(* is empty at the start, and every step leaves it so), and no step        *)
(* changes the created_at of a session that stays in the dictionary.       *)
(***************************************************************************)
C12_LastUsedNotBeforeCreated ==
    [][\A id \in DOMAIN sessions' :
          /\ sessions'[id].last_used >= sessions'[id].created_at
          /\ id \in DOMAIN sessions
                => sessions'[id].created_at = sessions[id].created_at]_vars

\* A lookup has touched a session after its creation while another session
\* is stored too.
C12_Witness ==
    /\ \E id \in DOMAIN sessions :
          /\ Looked(ret, id)
          /\ sessions[id].last_used > sessions[id].created_at + 1
    /\ \E id \in DOMAIN sessions : ~Looked(ret, id)

(***************************************************************************)
(* C13 as claimed: a successful login adds exactly one entry, under an id  *)
(* that was never issued before, whose Session has created_at = last_used  *)
(* = now and the host, token and http_path of the call, and leaves the     *)
(* other entries as they were; every key maps to the Session with that id. *)
(***************************************************************************)
C13_LoginAddsOneAtNow ==
    [][ret'.op = "login" /\ ret'.out = "Successfully authenticated"
          => /\ ret'.id \notin DOMAIN issued
             /\ DOMAIN sessions' = DOMAIN sessions \cup {ret'.id}
             /\ \A k \in DOMAIN sessions : sessions'[k] = sessions[k]
             /\ \A k \in DOMAIN sessions' : sessions'[k].id = k
             /\ sessions'[ret'.id].host = issued'[ret'.id].host
             /\ sessions'[ret'.id].token = issued'[ret'.id].token
             /\ sessions'[ret'.id].http_path = issued'[ret'.id].http_path
             /\ sessions'[ret'.id].created_at = sessions'[ret'.id].last_used
             /\ sessions'[ret'.id].last_used = now']_vars

(***************************************************************************)
(* C13 as amended: a successful login adds exactly one entry, under an id  *)
(* that was never issued before, whose Session has the host, token and     *)
(* http_path of the call, a created_at read from the clock during the call *)
(* and a last_used read after it (created_at <= last_used), and leaves the *)
(* other entries as they were; every key maps to the Session with that id. *)
(***************************************************************************)
C13_LoginAddsOne ==
    [][ret'.op = "login" /\ ret'.out = "Successfully authenticated"
          => /\ ret'.id \notin DOMAIN issued
             /\ DOMAIN sessions' = DOMAIN sessions \cup {ret'.id}
             /\ \A k \in DOMAIN sessions : sessions'[k] = sessions[k]
             /\ \A k \in DOMAIN sessions' : sessions'[k].id = k
             /\ sessions'[ret'.id].host = issued'[ret'.id].host
             /\ sessions'[ret'.id].token = issued'[ret'.id].token
             /\ sessions'[ret'.id].http_path = issued'[ret'.id].http_path
             /\ sessions'[ret'.id].expiry = Expiry
             /\ now <= sessions'[ret'.id].created_at
             /\ sessions'[ret'.id].created_at <= sessions'[ret'.id].last_used
             /\ sessions'[ret'.id].last_used = now']_vars

\* A second login has succeeded; the clock advanced between the two readings
\* of __init__, and the session of the first login is still stored.
C13_Witness ==
    /\ ret.op = "login" /\ ret.out = "Successfully authenticated"
    /\ ret.id \in DOMAIN sessions
    /\ sessions[ret.id].created_at < sessions[ret.id].last_used
    /\ Cardinality(DOMAIN sessions) = 2

(***************************************************************************)
(* C14: a session_status of the id that the login just before it returned, *)
(* made while the clock still reads what it read at the end of the login,  *)
(* succeeds, shows the id, host and created_at of the login and a          *)
(* remaining time of the full expiry (60 minutes).                         *)
(***************************************************************************)
C14_StatusRightAfterLogin ==
    [][(/\ ret.op = "login" /\ ret.out = "Successfully authenticated"
        /\ ret'.op = "session_status" /\ ret'.arg = ret.id
        /\ now' = now)
          => /\ ret'.res.out = "Session Status"
             /\ ret'.res.id = ret.id
             /\ ret'.res.host = issued[ret.id].host
             /\ ret'.res.created = sessions[ret.id].created_at
             /\ ret'.res.expires_in = Expiry
             /\ ret'.res.minutes = 60]_vars

\* session_status reports the full expiry for a session whose login ended at
\* the present reading of the clock, after the clock advanced within __init__.
C14_Witness ==
    /\ ret.op = "session_status" /\ ret.res.out = "Session Status"
    /\ ret.res.expires_in = Expiry /\ ret.res.minutes = 60
    /\ DOMAIN issued = {ret.arg}
    /\ sessions[ret.arg].created_at = 0
    /\ sessions[ret.arg].last_used = 1
    /\ now = 1

(***************************************************************************)
(* C15: under every interleaving of get_session, session_status and logout *)
(* calls on one id, each call ends with a found or not-found result: the   *)
(* del statement that a call executes finds its key in the dictionary, so  *)
(* no call ends with an unhandled KeyError.                                *)
(***************************************************************************)
C15_NoUnhandledKeyError ==
    [][\A t \in Threads :
          th[t].pc \in {"gs_del", "lo_del"} /\ th'[t].pc = "done"
              => th[t].sid \in DOMAIN sessions]_vars

(***************************************************************************)
(* C16 as claimed: a session_status of a live session sets last_used to a  *)
(* clock reading of the call and reports the full expiry as the remaining  *)
(* time.                                                                   *)
(***************************************************************************)
C16_StatusReportsFullExpiry ==
    [][ret'.op = "session_status" /\ ret'.res.out = "Session Status"
          => /\ ret'.arg \in DOMAIN sessions'
             /\ sessions'[ret'.arg].last_used >= now
             /\ ret'.res.expires_in = Expiry
             /\ ret'.res.minutes = 60]_vars

(***************************************************************************)
(* C16 as amended: a session_status of a live session sets last_used to a  *)
(* clock reading of the call, leaves the other fields as they were, and    *)
(* reports the expiry less the time between that reading and the reading   *)
(* of the report: at most the full expiry, the full expiry when the clock  *)
(* did not advance in between, whatever the idle time before the call.     *)
(***************************************************************************)
C16_StatusTouchesFirst ==
    [][ret'.op = "session_status" /\ ret'.res.out = "Session Status"
          => /\ ret'.arg \in DOMAIN sessions /\ ret'.arg \in DOMAIN sessions'
             /\ sessions'[ret'.arg].last_used >= now
             /\ sessions'[ret'.arg].last_used <= now'
             /\ Fixed(sessions'[ret'.arg]) = Fixed(sessions[ret'.arg])
             /\ ret'.res.expires_in
                   = Expiry - (now' - sessions'[ret'.arg].last_used)
             /\ ret'.res.expires_in <= Expiry
             /\ ret'.res.expires_in >= Expiry - MaxDrift
             /\ ret'.res.minutes
                   = int_div(ret'.res.expires_in * SecondsPerTick, 60)]_vars

\* session_status has touched a session that was idle since its login at 0
\* and reports less than the full expiry, the clock having advanced between
\* the touch and the report.
C16_Witness ==
    /\ ret.op = "session_status" /\ ret.res.out = "Session Status"
    /\ ret.res.expires_in = Expiry - 1
    /\ sessions[ret.arg].created_at = 0
    /\ sessions[ret.arg].last_used = Expiry
    /\ now = Expiry + 1

(***************************************************************************)
(* C17: a stored session has no absolute lifetime.  A lookup that ends     *)
(* within the expiry of the last touch (or of the login) finds the session *)
(* and keeps it, whatever the time since created_at; and no step other     *)
(* than a lookup or a logout of its id removes or changes it.             *)
(***************************************************************************)
C17_NoAbsoluteLifetime ==
    [][\A id \in DOMAIN sessions :
          /\ (/\ Looked(ret', id)
              /\ now' - sessions[id].last_used <= sessions[id].expiry)
                => /\ id \in DOMAIN sessions'
                   /\ ~NotFound(ret')
                   /\ sessions'[id].last_used >= now
          /\ (~Looked(ret', id) /\ ~(ret'.op = "logout" /\ ret'.arg = id))
                => /\ id \in DOMAIN sessions'
                   /\ sessions'[id] = sessions[id]]_vars

\* get_session returns a session that was created two expiry durations ago.
C17_Witness ==
    /\ ret.op = "get_session" /\ ret.session # NoSession
    /\ ret.session.created_at = 0
    /\ ret.session.last_used = 2 * Expiry
    /\ now = 2 * Expiry

(***************************************************************************)
(* C18: a get_session, session_status, resolver or logout call with id A,  *)
(* and every login, leaves each stored session with an id B # A in the     *)
(* dictionary with all its fields as they were.                            *)
(***************************************************************************)
C18_OtherSessionsUntouched ==
    [][\A B \in DOMAIN sessions :
          (\/ ret'.op \in LookupOps \cup {"logout"} /\ ret'.arg # B
           \/ ret'.op = "login")
          => /\ B \in DOMAIN sessions'
             /\ sessions'[B] = sessions[B]]_vars

\* A get_session has touched one session at the end of the time while the
\* other stored session, expired by then, is as its login left it.
C18_Witness ==
    /\ ret.op = "get_session" /\ ret.session # NoSession
    /\ ret.session.last_used = MaxTime
    /\ \E B \in DOMAIN sessions \ {ret.arg} :
          /\ sessions[B].last_used = sessions[B].created_at
          /\ Expired(sessions[B], now)
====
